---- MODULE Spec2Model ----
(***************************************************************************)
(* A model of the WhatsTrending TikTok core: the per-category rate limiter *)
(* (src/src/tiktok_api.py, RateLimitHandler), the collectors of one        *)
(* TikTokTrendScraper that draw slots from rate limiters, the hashtag      *)
(* merge (src/src/tiktok_automation.py, _merge_hashtag_data), the calls    *)
(* get_trending_hashtags and analyze_trends that collect and merge, and    *)
(* the transcript analysis (_analyze_transcription).                       *)
(*                                                                         *)
(* Time is the wall clock read by datetime.now(), in whole time-units.     *)
(* asyncio runs one coroutine at a time and switches only at an await that *)
(* suspends, so handle_rate_limit is two atomic steps: from its entry to   *)
(* the sleep (or to its return when it does not sleep), and from the wake  *)
(* up to its return.                                                       *)
(***************************************************************************)
EXTENDS Integers, Sequences, FiniteSets, TLC

VARIABLES
    now,          \* the clock, datetime.now()
    rate_limits,  \* rate_limits[h][c] = [calls, reset_time] of handler h
    tasks,        \* tasks[t]: where coroutine t stands in handle_rate_limit
    todo,         \* the acquisitions the aggregator's running method still makes
    ev,           \* the step last taken (what was called, and how it ended)
    windows,      \* history: per handler and category, the tracked window starts
                  \* still open, with the grants counted since each was set
    recent,       \* history: per handler and category, the grant times less than
                  \* a window old, with the grants counted from each on
    cur,          \* history: per handler and category, how the window in effect
                  \* began and how many calls were made in it
    heap,         \* the TikTokHashtag objects, by identity
    lists,        \* the argument of _merge_hashtag_data: lists of object ids
    result,       \* the returned list (object ids, the records are in heap)
    phase,        \* which merge call has returned
    heap0,        \* history: the objects as they were before the first call
    first,        \* history: the records returned by the first call
    env,          \* how the awaited call of each hashtag collector ends
    call,         \* the running get_trending_hashtags / analyze_trends call
    transcription, \* the argument of _analyze_transcription, as its lines
    analysis,     \* what _analyze_transcription returned
    elements,     \* what _extract_script_elements returned
    run           \* the running process_trending_video / transcribe call

limiterVars == <<now, rate_limits, tasks, todo, ev, windows, recent, cur>>
mergeVars == <<heap, lists, result, phase, heap0, first>>
pipeVars == <<env, call, transcription, analysis, elements, run>>
vars == <<now, rate_limits, tasks, todo, ev, windows, recent, cur,
          heap, lists, result, phase, heap0, first,
          env, call, transcription, analysis, elements, run>>

(***************************************************************************)
(* Bounds of the model.  The window of 60 s and the ceilings of 100, 50    *)
(* and 30 calls are scaled down so that a window can fill and elapse, and  *)
(* more callers than a ceiling can wait, within the explored horizon.      *)
(***************************************************************************)
WindowLen == 3
ApiCeiling == 2
TranscriptionCeiling == 2
WebCeiling == 1
MaxTime == 7
MaxLen == 2

Tasks == {"t1", "t2", "t3"}
SeqTask == "t1"

\* The RateLimitHandler instances one TikTokTrendScraper constructs and uses.
Handlers == {"api_client", "scraper", "sound_analyzer", "sound_analyzer_api_client",
             "transcription_service"}
\* The instance the concurrent callers of Spec share.
SharedHandler == "api_client"

Categories == {"api", "transcription", "web"}
LimitTypes == Categories \cup {"unknown"}
\* What the concurrent callers of Spec ask for: one contended category and a
\* category that is not configured.
ContendedTypes == {"api", "unknown"}

max_calls == [c \in Categories |->
                 CASE c = "api" -> ApiCeiling
                   [] c = "transcription" -> TranscriptionCeiling
                   [] c = "web" -> WebCeiling]

NoTask == [pc |-> "idle", h |-> "", limit_type |-> "", wake |-> 0]

(***************************************************************************)
(* RateLimitHandler.handle_rate_limit, piece by piece.                     *)
(***************************************************************************)

\* timedelta.seconds: the seconds field of a (normalised) timedelta, days dropped.
Seconds(d) == d % (24 * 3600)

\* Mutant: the window is taken to have elapsed one time-unit late.
WindowElapsedLate(t, reset_time) == t - reset_time > WindowLen + 1

\* now - limit['reset_time'] > timedelta(minutes=1)
WindowElapsed(t, reset_time) == t - reset_time > WindowLen

\* Mutant: the ceiling test off by one.
LimitReachedStrict(calls, limit_type) == calls > max_calls[limit_type]

\* limit['calls'] >= self.max_calls[limit_type]
LimitReached(calls, limit_type) == calls >= max_calls[limit_type]

\* Mutant: a wait one time-unit short of the window's end.
WaitTimeShort(t, reset_time) == WindowLen - Seconds(t - reset_time) - 1

\* wait_time = 60 - (now - limit['reset_time']).seconds
WaitTime(t, reset_time) == WindowLen - Seconds(t - reset_time)

\* Mutant: the window restarts but the counter is not zeroed.
AfterWindowCheckKeepsCount(limit, t) ==
    IF WindowElapsed(t, limit.reset_time)
    THEN [calls |-> limit.calls, reset_time |-> t]
    ELSE limit

\* Lines 54-57: the counter and the window start after the elapsed-window check.
AfterWindowCheck(limit, t) ==
    IF WindowElapsed(t, limit.reset_time)
    THEN [calls |-> 0, reset_time |-> t]
    ELSE limit

\* Mutant: the sleep is not awaited, the caller goes on at once.
WakeTimeAtOnce(t, wait_time) == t

\* asyncio.sleep(d) returns no earlier than d from now; d <= 0 still yields once.
WakeTime(t, wait_time) == IF wait_time > 0 THEN t + wait_time ELSE t

(***************************************************************************)
(* History of tracked windows.  A window record is made whenever a window  *)
(* start is set; it counts the grants made from then on and strictly       *)
(* before start + WindowLen: n by its own handler, all by every handler    *)
(* of the category.                                                        *)
(***************************************************************************)
Open(w, t) == t < w.start + WindowLen

Track(ws, start) ==
    IF \E w \in ws : w.start = start THEN ws
    ELSE ws \cup {[start |-> start, n |-> 0, all |-> 0]}

Count(ws, t, own) ==
    {IF Open(w, t)
     THEN [w EXCEPT !.n = IF own THEN @ + 1 ELSE @, !.all = @ + 1]
     ELSE w : w \in ws}

Prune(ws, t) == {w \in ws : Open(w, t)}

\* The history after handler h granted a slot of category c at time t, the
\* window start having been set to `start` in the same step when `set`.
Granted(h, c, t, set) ==
    [g \in Handlers |-> [d \in Categories |->
        IF d # c THEN windows[g][d]
        ELSE Count(IF g = h /\ set THEN Track(Prune(windows[g][d], t), t)
                   ELSE Prune(windows[g][d], t),
                   t, g = h)]]

\* The grant times less than a window old after a grant at time t.
Recent(rs, t) ==
    LET kept == {r \in rs : t < r.start + WindowLen}
        with == IF \E r \in kept : r.start = t THEN kept
                ELSE kept \cup {[start |-> t, n |-> 0]}
    IN  {[r EXCEPT !.n = @ + 1] : r \in with}

\* No get_trending_hashtags or analyze_trends call has been made.
NoCall == [op |-> "", pc |-> "idle", max_results |-> <<>>, arrived |-> <<>>,
           error |-> "", sounds |-> <<>>, videos |-> <<>>, top_trend |-> ""]

\* _analyze_transcription has not returned.
NoAnalysis == [done |-> FALSE, segments |-> <<>>, hooks |-> <<>>, key_points |-> <<>>,
               call_to_action |-> <<>>, segment_count |-> 0]

\* _extract_script_elements has not returned.
NoElements == [done |-> FALSE, hook |-> <<>>, main_content |-> <<>>, cta |-> <<>>]

\* No process_trending_video or transcribe call has been made.
NoRun == [op |-> "", pc |-> "idle", video_id |-> <<>>, provider |-> "", steps |-> <<>>,
          slots |-> 0, transcription |-> <<>>, script |-> <<>>, is_original |-> FALSE,
          error |-> "", returned |-> FALSE]

NoEvent == [op |-> "init", task |-> "", h |-> "", limit_type |-> "", outcome |-> ""]

Init ==
    /\ now = 0
    /\ rate_limits = [h \in Handlers |-> [c \in Categories |->
                         [calls |-> 0, reset_time |-> 0]]]
    /\ tasks = [t \in Tasks |-> NoTask]
    /\ todo = <<>>
    /\ ev = NoEvent
    /\ windows = [h \in Handlers |-> [c \in Categories |->
                     {[start |-> 0, n |-> 0, all |-> 0]}]]
    /\ recent = [h \in Handlers |-> [c \in Categories |-> {}]]
    /\ cur = [h \in Handlers |-> [c \in Categories |-> [fresh |-> TRUE, made |-> 0]]]
    /\ heap = <<>>
    /\ lists = <<>>
    /\ result = <<>>
    /\ phase = "none"
    /\ heap0 = <<>>
    /\ first = <<>>
    /\ env = <<>>
    /\ call = NoCall
    /\ transcription = <<>>
    /\ analysis = NoAnalysis
    /\ elements = NoElements
    /\ run = NoRun

\* Time passes.
Tick ==
    /\ now < MaxTime
    /\ now' = now + 1
    /\ ev' = [NoEvent EXCEPT !.op = "tick"]
    /\ windows' = [h \in Handlers |-> [c \in Categories |->
                      Prune(windows[h][c], now + 1)]]
    /\ recent' = [h \in Handlers |-> [c \in Categories |->
                     {r \in recent[h][c] : now + 1 < r.start + WindowLen}]]
    /\ UNCHANGED <<rate_limits, tasks, todo, cur>>
    /\ UNCHANGED <<mergeVars, pipeVars>>

\* Mutant: a limit type that is not configured is counted against 'api'.
RaiseUnknownFallsBack(t, h, limit_type) ==
    /\ ev' = [op |-> "call", task |-> t, h |-> h, limit_type |-> limit_type,
              outcome |-> "granted"]
    /\ rate_limits' = [rate_limits EXCEPT ![h]["api"].calls = @ + 1]
    /\ UNCHANGED <<tasks, windows, recent, cur>>

\* Lines 48-49: raise ValueError for a limit type that is not configured.
RaiseUnknown(t, h, limit_type) ==
    /\ ev' = [op |-> "call", task |-> t, h |-> h, limit_type |-> limit_type,
              outcome |-> "ValueError"]
    /\ UNCHANGED <<rate_limits, tasks, windows, recent, cur>>

\* Lines 51-67 up to the return or to the await of asyncio.sleep.
Acquire(t, h, limit_type) ==
    LET limit == AfterWindowCheck(rate_limits[h][limit_type], now)
        set == limit # rate_limits[h][limit_type]
        made == IF set THEN 1 ELSE cur[h][limit_type].made + 1
    IN  /\ cur' = [cur EXCEPT ![h][limit_type] =
               [fresh |-> set \/ @.fresh, made |-> made]]
        /\ IF LimitReached(limit.calls, limit_type)
           THEN \* await asyncio.sleep(wait_time)
                /\ rate_limits' = [rate_limits EXCEPT ![h][limit_type] = limit]
                /\ tasks' = [tasks EXCEPT ![t] =
                       [pc |-> "sleeping", h |-> h, limit_type |-> limit_type,
                        wake |-> WakeTime(now, WaitTime(now, limit.reset_time))]]
                /\ windows' = [windows EXCEPT ![h][limit_type] =
                       IF set THEN Track(Prune(@, now), now) ELSE @]
                /\ ev' = [op |-> "call", task |-> t, h |-> h,
                          limit_type |-> limit_type, outcome |-> "suspended"]
                /\ UNCHANGED recent
           ELSE \* limit['calls'] += 1
                /\ rate_limits' = [rate_limits EXCEPT ![h][limit_type] =
                       [limit EXCEPT !.calls = @ + 1]]
                /\ windows' = Granted(h, limit_type, now, set)
                /\ recent' = [recent EXCEPT ![h][limit_type] = Recent(@, now)]
                /\ ev' = [op |-> "call", task |-> t, h |-> h,
                          limit_type |-> limit_type, outcome |-> "granted"]
                /\ UNCHANGED tasks

\* handle_rate_limit(limit_type) on handler h by coroutine t, from its entry
\* to its return, its raise or its await of asyncio.sleep.
EnterRateLimit(t, h, limit_type) ==
    /\ tasks[t].pc = "idle"
    /\ UNCHANGED now
    /\ IF limit_type \notin DOMAIN rate_limits[h]
       THEN RaiseUnknown(t, h, limit_type)
       ELSE Acquire(t, h, limit_type)

\* handle_rate_limit awaited by a caller that does nothing else in the step.
HandleRateLimit(t, h, limit_type) ==
    /\ EnterRateLimit(t, h, limit_type)
    /\ UNCHANGED <<mergeVars, pipeVars>>

\* Lines 64-67: the counter and the window start once the sleep is over.
AfterSleep(t) == [calls |-> 0 + 1, reset_time |-> t]

\* The rest of handle_rate_limit once the sleep is over (lines 64-67).
LeaveSleep(t) ==
    /\ tasks[t].pc = "sleeping"
    /\ now >= tasks[t].wake
    /\ LET h == tasks[t].h
           c == tasks[t].limit_type
       IN  /\ rate_limits' = [rate_limits EXCEPT ![h][c] = AfterSleep(now)]
           /\ windows' = Granted(h, c, now, TRUE)
           /\ recent' = [recent EXCEPT ![h][c] = Recent(@, now)]
           /\ cur' = [cur EXCEPT ![h][c] = [fresh |-> FALSE, made |-> 0]]
           /\ ev' = [op |-> "wake", task |-> t, h |-> h, limit_type |-> c,
                     outcome |-> "granted"]
    /\ tasks' = [tasks EXCEPT ![t] = NoTask]
    /\ UNCHANGED now

\* The sleep of a caller that does nothing else in the step is over.
Resume(t) ==
    /\ LeaveSleep(t)
    /\ UNCHANGED <<mergeVars, pipeVars>>

\* Concurrent coroutines calling one shared RateLimitHandler.
Next ==
    \/ Tick
    \/ \E t \in Tasks, c \in ContendedTypes :
           HandleRateLimit(t, SharedHandler, c) /\ UNCHANGED todo
    \/ \E t \in Tasks : Resume(t) /\ UNCHANGED todo

Spec == Init /\ [][Next]_vars

\* One caller that awaits each call before it makes the next.
SeqNext ==
    \/ Tick
    \/ \E c \in LimitTypes :
           HandleRateLimit(SeqTask, SharedHandler, c) /\ UNCHANGED todo
    \/ Resume(SeqTask) /\ UNCHANGED todo

SeqSpec == Init /\ [][SeqNext]_vars

(***************************************************************************)
(* The collectors of one TikTokTrendScraper.  Each method is the sequence  *)
(* of handle_rate_limit calls it awaits, on the handler of the object that *)
(* makes the call.                                                         *)
(***************************************************************************)

\* TikTokAPIClient.get_trending_videos on the scraper's api_client.
VideosSlots == << <<"api_client", "api">> >>

\* TikTokWebScraper.scrape_discover_page on the scraper's web scraper.
DiscoverSlots == << <<"scraper", "web">> >>

\* TikTokSoundAnalyzer.get_trending_sounds: its own handler, then the handler
\* of the TikTokAPIClient it constructed for itself.
SoundsSlots == << <<"sound_analyzer", "api">>, <<"sound_analyzer_api_client", "api">> >>

\* TikTokTrendScraper.get_trending_hashtags: _get_trending_hashtags_api,
\* _scrape_discover_page, _get_trending_sound_hashtags.
HashtagsSlots == VideosSlots \o DiscoverSlots \o (SoundsSlots \o VideosSlots)

Operations == {"get_trending_hashtags", "get_trending_sounds", "get_trending_videos"}

Slots(op) ==
    CASE op = "get_trending_hashtags" -> HashtagsSlots
      [] op = "get_trending_sounds" -> SoundsSlots
      [] op = "get_trending_videos" -> VideosSlots

\* The caller awaits a method of the scraper.
AggStart(op) ==
    /\ todo = <<>>
    /\ tasks[SeqTask].pc = "idle"
    /\ todo' = Slots(op)
    /\ ev' = [NoEvent EXCEPT !.op = op]
    /\ UNCHANGED <<now, rate_limits, tasks, windows, recent, cur>>
    /\ UNCHANGED <<mergeVars, pipeVars>>

\* The running method awaits its next handle_rate_limit.
AggAcquire ==
    /\ todo # <<>>
    /\ HandleRateLimit(SeqTask, Head(todo)[1], Head(todo)[2])
    /\ todo' = Tail(todo)

AggNext ==
    \/ Tick
    \/ \E op \in Operations : AggStart(op)
    \/ AggAcquire
    \/ Resume(SeqTask) /\ UNCHANGED todo

AggSpec == Init /\ [][AggNext]_vars

(***************************************************************************)
(* TikTokTrendScraper._merge_hashtag_data.  The lists hold references to   *)
(* TikTokHashtag objects: heap maps an object's identity to its fields, so *)
(* that one object can stand in several places and `merged[tag.name] =     *)
(* tag` keeps the argument's own object, which the later `+=` update.      *)
(* Optional[str] is <<>> for None and <<s>> for the string s.              *)
(***************************************************************************)
Objs == {"o1", "o2"}
Names == {"a", "b"}
Sources == 1 .. 3          \* api_tags, discover_tags, sound_tags
None == <<>>
Descriptions == {None, <<"">>, <<"x">>, <<"y">>}
\* (video_count, view_count) pairs the objects start with.
CountPairs == {<<1, 5>>, <<2, 3>>}

Hashtags == [name : Names, video_count : {p[1] : p \in CountPairs},
             view_count : {p[2] : p \in CountPairs}, description : Descriptions]

SeqsUpTo(S, n) == UNION {[1 .. k -> S] : k \in 0 .. n}

\* Python's truth value of an Optional[str]: None and '' are false.
Truthy(d) == d # None /\ d[1] # ""

\* Mutant: the description is taken from every later occurrence that has one.
MergeTagOverwrites(st, o) ==
    LET hp == st.heap
        hit == {i \in 1 .. Len(st.merged) : hp[st.merged[i]].name = hp[o].name}
    IN  IF hit = {}
        THEN [merged |-> Append(st.merged, o), heap |-> hp]
        ELSE LET e == st.merged[CHOOSE i \in hit : TRUE]
                 h1 == [hp EXCEPT ![e].video_count = hp[e].video_count + hp[o].video_count]
                 h2 == [h1 EXCEPT ![e].view_count = h1[e].view_count + h1[o].view_count]
                 h3 == IF Truthy(h2[o].description)
                       THEN [h2 EXCEPT ![e].description = h2[o].description]
                       ELSE h2
             IN  [merged |-> st.merged, heap |-> h3]

\* Lines 157-164, the loop body for one tag: st.merged is the dict `merged`
\* as the objects it holds in insertion order (its keys are their names).
MergeTag(st, o) ==
    LET hp == st.heap
        hit == {i \in 1 .. Len(st.merged) : hp[st.merged[i]].name = hp[o].name}
    IN  IF hit = {}
        THEN \* merged[tag.name] = tag
             [merged |-> Append(st.merged, o), heap |-> hp]
        ELSE LET e == st.merged[CHOOSE i \in hit : TRUE]
                 \* existing.video_count += tag.video_count
                 h1 == [hp EXCEPT ![e].video_count = hp[e].video_count + hp[o].video_count]
                 \* existing.view_count += tag.view_count
                 h2 == [h1 EXCEPT ![e].view_count = h1[e].view_count + h1[o].view_count]
                 \* if not existing.description and tag.description: ...
                 h3 == IF ~Truthy(h2[e].description) /\ Truthy(h2[o].description)
                       THEN [h2 EXCEPT ![e].description = h2[o].description]
                       ELSE h2
             IN  [merged |-> st.merged, heap |-> h3]

\* Line 156: for tag in hashtags.
RECURSIVE MergeList(_, _)
MergeList(st, hashtags) ==
    IF hashtags = <<>> THEN st
    ELSE MergeList(MergeTag(st, Head(hashtags)), Tail(hashtags))

\* Line 155: for hashtags in hashtag_lists.
RECURSIVE MergeLists(_, _)
MergeLists(st, hashtag_lists) ==
    IF hashtag_lists = <<>> THEN st
    ELSE MergeLists(MergeList(st, Head(hashtag_lists)), Tail(hashtag_lists))

\* Mutant: a descending sort that is not stable, an object goes ahead of the
\* objects whose view_count equals its own.
InsertByViewsUnstable(sorted, o, hp) ==
    LET ahead == {i \in 1 .. Len(sorted) : hp[sorted[i]].view_count > hp[o].view_count}
        k == IF ahead = {} THEN 0 ELSE CHOOSE i \in ahead : \A j \in ahead : j <= i
    IN  SubSeq(sorted, 1, k) \o <<o>> \o SubSeq(sorted, k + 1, Len(sorted))

\* One step of a stable descending sort: o goes behind every object whose
\* view_count is at least its own.
InsertByViews(sorted, o, hp) ==
    LET ahead == {i \in 1 .. Len(sorted) : hp[sorted[i]].view_count >= hp[o].view_count}
        k == IF ahead = {} THEN 0 ELSE CHOOSE i \in ahead : \A j \in ahead : j <= i
    IN  SubSeq(sorted, 1, k) \o <<o>> \o SubSeq(sorted, k + 1, Len(sorted))

\* Line 166: sorted(merged.values(), key=lambda x: x.view_count, reverse=True);
\* Python's sort is stable, also with reverse=True.
RECURSIVE SortedByViews(_, _, _)
SortedByViews(done, rest, hp) ==
    IF rest = <<>> THEN done
    ELSE SortedByViews(InsertByViews(done, Head(rest), hp), Tail(rest), hp)

\* _merge_hashtag_data(*hashtag_lists) run on the objects hp: the list it
\* returns and the objects as it leaves them.
merge_hashtag_data(hashtag_lists, hp) ==
    LET st == MergeLists([merged |-> <<>>, heap |-> hp], hashtag_lists)
    IN  [result |-> SortedByViews(<<>>, st.merged, st.heap), heap |-> st.heap]

\* The records a list of references stands for.
Records(refs, hp) == [i \in 1 .. Len(refs) |-> hp[refs[i]]]

MergeInit ==
    /\ now = 0
    /\ rate_limits = [h \in Handlers |-> [c \in Categories |->
                         [calls |-> 0, reset_time |-> 0]]]
    /\ tasks = [t \in Tasks |-> NoTask]
    /\ todo = <<>>
    /\ ev = NoEvent
    /\ windows = [h \in Handlers |-> [c \in Categories |->
                     {[start |-> 0, n |-> 0, all |-> 0]}]]
    /\ recent = [h \in Handlers |-> [c \in Categories |-> {}]]
    /\ cur = [h \in Handlers |-> [c \in Categories |-> [fresh |-> TRUE, made |-> 0]]]
    /\ heap \in [Objs -> {r \in Hashtags : <<r.video_count, r.view_count>> \in CountPairs}]
    /\ lists \in [Sources -> SeqsUpTo(Objs, MaxLen)]
    /\ result = <<>>
    /\ phase = "input"
    /\ heap0 = heap
    /\ first = <<>>
    /\ env = <<>>
    /\ call = NoCall
    /\ transcription = <<>>
    /\ analysis = NoAnalysis
    /\ elements = NoElements
    /\ run = NoRun

\* The first call: _merge_hashtag_data(*lists).
MergeCall ==
    /\ phase = "input"
    /\ LET r == merge_hashtag_data(lists, heap)
       IN  /\ heap' = r.heap
           /\ result' = r.result
           /\ first' = Records(r.result, r.heap)
    /\ phase' = "merged"
    /\ UNCHANGED <<lists, heap0>>
    /\ UNCHANGED <<limiterVars, pipeVars>>

\* The same call made a second time, over the same source lists.
MergeSourcesAgain ==
    /\ phase = "merged"
    /\ LET r == merge_hashtag_data(lists, heap)
       IN  heap' = r.heap /\ result' = r.result
    /\ phase' = "again"
    /\ UNCHANGED <<lists, heap0, first>>
    /\ UNCHANGED <<limiterVars, pipeVars>>

\* The returned list merged again: _merge_hashtag_data(result).
MergeResultAgain ==
    /\ phase = "merged"
    /\ LET r == merge_hashtag_data(<<result>>, heap)
       IN  heap' = r.heap /\ result' = r.result
    /\ phase' = "remerged"
    /\ UNCHANGED <<lists, heap0, first>>
    /\ UNCHANGED <<limiterVars, pipeVars>>

MergeNext == MergeCall \/ MergeSourcesAgain \/ MergeResultAgain

MergeSpec == MergeInit /\ [][MergeNext]_vars

(***************************************************************************)
(* TikTokTrendScraper.get_trending_hashtags and                            *)
(* TikTokContentPipeline.analyze_trends.  A collector's awaited call is    *)
(* the environment's: it returns a list, raises, or never completes (env). *)
(* The coroutine advances from one await to the next in one step.  The     *)
(* slots the collectors draw from their rate limiters are AggSpec's        *)
(* matter: a handle_rate_limit of a configured category always returns.    *)
(***************************************************************************)
MaxTags == 1

\* How an awaited call can end: it returns, it raises, it never completes.
Outcomes == {"ok", "raise", "hang"}

\* The awaits of get_trending_hashtags, lines 91-93, in program order.
Awaits == <<"api_tags", "discover_tags", "sound_tags">>

\* Which of the three awaits the call stands at (0 when at none).
Awaited ==
    IF \E s \in Sources : Awaits[s] = call.pc
    THEN CHOOSE s \in Sources : Awaits[s] = call.pc
    ELSE 0

\* What a caller can pass for max_results: nothing, or a number.
MaxResultsArgs == {None} \cup {<<k>> : k \in 0 .. MaxTags}

\* Lists of sounds and of videos, as far as _analyze_trend_data tells them
\* apart: by their length.
SoundLists == {<<>>, <<"sound">>}
VideoLists == {<<>>, <<"video">>}

TrendsInit ==
    /\ now = 0
    /\ rate_limits = [h \in Handlers |-> [c \in Categories |->
                         [calls |-> 0, reset_time |-> 0]]]
    /\ tasks = [t \in Tasks |-> NoTask]
    /\ todo = <<>>
    /\ ev = NoEvent
    /\ windows = [h \in Handlers |-> [c \in Categories |->
                     {[start |-> 0, n |-> 0, all |-> 0]}]]
    /\ recent = [h \in Handlers |-> [c \in Categories |-> {}]]
    /\ cur = [h \in Handlers |-> [c \in Categories |-> [fresh |-> TRUE, made |-> 0]]]
    /\ heap \in [Objs -> {r \in Hashtags : /\ <<r.video_count, r.view_count>> \in CountPairs
                                           /\ r.description = None}]
    /\ lists \in [Sources -> SeqsUpTo(Objs, MaxTags)]
    /\ result = <<>>
    /\ phase = "none"
    /\ heap0 = heap
    /\ first = <<>>
    /\ env \in [Sources -> Outcomes]
    /\ call = NoCall
    /\ transcription = <<>>
    /\ analysis = NoAnalysis
    /\ elements = NoElements
    /\ run = NoRun

\* A caller awaits get_trending_hashtags or analyze_trends.  Line 89:
\* get_trending_hashtags(self) takes no max_results, so a call that passes
\* one raises TypeError before the body runs; analyze_trends (line 229)
\* passes none.
CallTrends(op, max_results) ==
    /\ call.pc = "idle"
    /\ op = "analyze_trends" => max_results = None
    /\ call' = IF max_results # None
               THEN [call EXCEPT !.op = op, !.max_results = max_results,
                                 !.pc = "raised", !.error = "TypeError"]
               ELSE [call EXCEPT !.op = op, !.pc = Awaits[1]]
    /\ UNCHANGED <<env, transcription, analysis, elements, run>>
    /\ UNCHANGED <<limiterVars, mergeVars>>

\* Lines 91-95: the awaited collector returns its list.  After the third,
\* line 95 merges the three lists and get_trending_hashtags returns, to its
\* caller or to line 230 of analyze_trends.
CollectorReturns ==
    /\ Awaited # 0
    /\ env[Awaited] = "ok"
    /\ LET arrived == Append(call.arrived, lists[Awaited])
       IN  IF Awaited < Len(Awaits)
           THEN /\ call' = [call EXCEPT !.arrived = arrived, !.pc = Awaits[Awaited + 1]]
                /\ UNCHANGED <<heap, result>>
           ELSE LET r == merge_hashtag_data(arrived, heap)
                IN  /\ heap' = r.heap
                    /\ result' = r.result
                    /\ call' = [call EXCEPT !.arrived = arrived,
                                   !.pc = IF call.op = "analyze_trends"
                                          THEN "sounds" ELSE "returned"]
    /\ UNCHANGED <<lists, phase, heap0, first>>
    /\ UNCHANGED <<env, transcription, analysis, elements, run>>
    /\ UNCHANGED limiterVars

\* Lines 91-93 have no try: what the awaited collector raises leaves
\* get_trending_hashtags, and analyze_trends (line 229) with it.
CollectorRaises ==
    /\ Awaited # 0
    /\ env[Awaited] = "raise"
    /\ call' = [call EXCEPT !.pc = "raised", !.error = "collector"]
    /\ UNCHANGED <<env, transcription, analysis, elements, run>>
    /\ UNCHANGED <<limiterVars, mergeVars>>

\* Line 230 of analyze_trends: get_trending_sounds returns.
SoundsReturn ==
    /\ call.pc = "sounds"
    /\ \E sounds \in SoundLists : call' = [call EXCEPT !.sounds = sounds, !.pc = "videos"]
    /\ UNCHANGED <<env, transcription, analysis, elements, run>>
    /\ UNCHANGED <<limiterVars, mergeVars>>

\* Line 338: max(hashtags, key=lambda h: h.view_count).name; max returns
\* the first of the largest, and raises ValueError on an empty list.
identify_top_trend(hashtags, hp) ==
    LET top == CHOOSE i \in 1 .. Len(hashtags) :
                   /\ \A j \in 1 .. Len(hashtags) :
                          hp[hashtags[j]].view_count <= hp[hashtags[i]].view_count
                   /\ \A j \in 1 .. (i - 1) :
                          hp[hashtags[j]].view_count < hp[hashtags[i]].view_count
    IN  IF hashtags = <<>> THEN [raised |-> TRUE, name |-> ""]
        ELSE [raised |-> FALSE, name |-> hp[hashtags[top]].name]

\* Lines 231-238: get_trending_videos returns and _analyze_trend_data runs;
\* its first entry is _identify_top_trend(hashtags).  The entries computed
\* from sounds and videos have a branch for the empty list and do not raise.
VideosReturn ==
    /\ call.pc = "videos"
    /\ \E videos \in VideoLists :
           LET t == identify_top_trend(result, heap)
           IN  call' = IF t.raised
                       THEN [call EXCEPT !.videos = videos, !.pc = "raised",
                                         !.error = "ValueError"]
                       ELSE [call EXCEPT !.videos = videos, !.pc = "returned",
                                         !.top_trend = t.name]
    /\ UNCHANGED <<env, transcription, analysis, elements, run>>
    /\ UNCHANGED <<limiterVars, mergeVars>>

TrendsNext ==
    \/ \E m \in MaxResultsArgs : CallTrends("get_trending_hashtags", m)
    \/ CallTrends("analyze_trends", None)
    \/ CollectorReturns
    \/ CollectorRaises
    \/ SoundsReturn
    \/ VideosReturn

\* The event loop runs a coroutine that can run.
TrendsSpec == TrendsInit /\ [][TrendsNext]_vars /\ WF_vars(TrendsNext)

(***************************************************************************)
(* TikTokContentPipeline._analyze_transcription.  A str is the sequence of *)
(* its characters, so that split, strip, == and endswith are computed on   *)
(* characters as Python computes them.                                     *)
(***************************************************************************)
MaxLines == 2

NewLine == "\n"
\* The characters str.strip() removes when called with no argument.
Whitespace == {" ", "\t", NewLine}

\* The pieces the lines of the explored transcripts are put together from:
\* an opening bracket or none, a start, a hyphen or none, an end, a closing
\* bracket or none, and a text.
Opens == {<<>>, <<"[">>}
Starts == {<<"0", "0", ":", "0", "0">>, <<"0", "0", ":", "0", "5">>}
Hyphens == {<<>>, <<"-">>}
Ends == {<<"0", "0", ":", "0", "5">>, <<"0", "0", ":", "6", "0">>}
Closes == {<<>>, <<"]">>}
Texts == {<<>>, <<" ", "H", "i">>, <<" ", "a", "]", "b", " ">>}
BlankLines == {<<>>, <<" ">>}

Lines ==
    BlankLines \cup
    {o \o s \o h \o e \o c \o t :
         o \in Opens, s \in Starts, h \in Hyphens, e \in Ends, c \in Closes, t \in Texts}

\* '\n'.join(ls)
RECURSIVE Join(_)
Join(ls) ==
    IF Len(ls) = 0 THEN <<>>
    ELSE IF Len(ls) = 1 THEN ls[1]
    ELSE ls[1] \o <<NewLine>> \o Join(Tail(ls))

Transcriptions == {Join(ls) : ls \in SeqsUpTo(Lines, MaxLines)}

\* str.split(sep) for a one-character sep: the parts between all the
\* occurrences of sep, one part more than there are occurrences.
RECURSIVE Split(_, _)
Split(s, sep) ==
    LET at == {i \in 1 .. Len(s) : s[i] = sep}
        k == CHOOSE i \in at : \A j \in at : i <= j
    IN  IF at = {} THEN <<s>>
        ELSE <<SubSeq(s, 1, k - 1)>> \o Split(SubSeq(s, k + 1, Len(s)), sep)

\* str.strip(chars): the characters of chars are removed from both ends.
Strip(s, chars) ==
    LET keep == {i \in 1 .. Len(s) : s[i] \notin chars}
        lo == CHOOSE i \in keep : \A j \in keep : i <= j
        hi == CHOOSE i \in keep : \A j \in keep : j <= i
    IN  IF keep = {} THEN <<>> ELSE SubSeq(s, lo, hi)

\* str.endswith(suffix)
EndsWith(s, suffix) ==
    /\ Len(s) >= Len(suffix)
    /\ SubSeq(s, Len(s) - Len(suffix) + 1, Len(s)) = suffix

NoSegment == [start |-> <<>>, end |-> <<>>, text |-> <<>>]

\* Lines 493-500, the body of the try for one line.  Each of the two tuple
\* assignments raises ValueError unless split returns exactly two parts.
ParseLine(line) ==
    LET parts == Split(line, "]")                  \* line.split(']')
        timestamp == Strip(parts[1], {"["})        \* timestamp.strip('[')
        ends == Split(timestamp, "-")              \* timestamp.split('-')
    IN  IF Len(parts) # 2 THEN [raised |-> TRUE, segment |-> NoSegment]
        ELSE IF Len(ends) # 2 THEN [raised |-> TRUE, segment |-> NoSegment]
        ELSE [raised |-> FALSE,
              segment |-> [start |-> ends[1], end |-> ends[2],
                           text |-> Strip(parts[2], Whitespace)]]

\* Lines 489-502: the segments of the lines, in order; a blank line is passed
\* over (line 491) and so is a line whose parse raises (lines 501-502).
RECURSIVE Segments(_)
Segments(lines) ==
    IF lines = <<>> THEN <<>>
    ELSE LET line == Head(lines)
             p == ParseLine(line)
         IN  (IF Strip(line, Whitespace) # <<>> /\ ~p.raised
              THEN <<p.segment>> ELSE <<>>) \o Segments(Tail(lines))

\* Line 507 and line 512 / 516: the two tests on a segment.
IsHook(seg) == seg.start = <<"0", "0", ":", "0", "0">>
IsCallToAction(seg) == EndsWith(seg.end, <<"6", "0">>)
IsKeyPoint(seg) == ~(IsHook(seg) \/ IsCallToAction(seg))

\* [seg['text'] for seg in segments if Test(seg)], for the three tests.
RECURSIVE TextsOf(_, _)
TextsOf(segments, tag) ==
    IF segments = <<>> THEN <<>>
    ELSE LET seg == Head(segments)
             tagged == CASE tag = "hook" -> IsHook(seg)
                         [] tag = "key_point" -> IsKeyPoint(seg)
                         [] tag = "call_to_action" -> IsCallToAction(seg)
         IN  (IF tagged THEN <<seg.text>> ELSE <<>>) \o TextsOf(Tail(segments), tag)

\* Lines 515-518: next(generator, None), the first text or None; the text
\* s is <<s>> here, as in Optional[str].
FirstOrNone(texts) == IF texts = <<>> THEN None ELSE <<Head(texts)>>

\* _analyze_transcription(transcription), lines 488-525.
analyze_transcription(t) ==
    LET segments == Segments(Split(t, NewLine))
    IN  [done |-> TRUE,
         segments |-> segments,
         hooks |-> TextsOf(segments, "hook"),
         key_points |-> TextsOf(segments, "key_point"),
         call_to_action |-> FirstOrNone(TextsOf(segments, "call_to_action")),
         segment_count |-> Len(segments)]

\* sep.join(ls)
RECURSIVE JoinWith(_, _)
JoinWith(ls, sep) ==
    IF Len(ls) = 0 THEN <<>>
    ELSE IF Len(ls) = 1 THEN ls[1]
    ELSE ls[1] \o sep \o JoinWith(Tail(ls), sep)

\* Mutant: the line is split at its first ']' only, split(']', 1).
ElementParseLineAtFirst(line) ==
    LET at == {i \in 1 .. Len(line) : line[i] = "]"}
        k == CHOOSE i \in at : \A j \in at : i <= j
        timestamp == Strip(SubSeq(line, 1, k - 1), {"["})
        ends == Split(timestamp, "-")
    IN  IF at = {} THEN [raised |-> TRUE, segment |-> NoSegment]
        ELSE IF Len(ends) # 2 THEN [raised |-> TRUE, segment |-> NoSegment]
        ELSE [raised |-> FALSE,
              segment |-> [start |-> ends[1], end |-> ends[2],
                           text |-> Strip(SubSeq(line, k + 1, Len(line)), Whitespace)]]

\* Lines 543-550 of _extract_script_elements, the body of its try.
ElementParseLine(line) ==
    LET parts == Split(line, "]")                  \* line.split(']')
        timestamp == Strip(parts[1], {"["})        \* timestamp.strip('[')
        ends == Split(timestamp, "-")              \* timestamp.split('-')
    IN  IF Len(parts) # 2 THEN [raised |-> TRUE, segment |-> NoSegment]
        ELSE IF Len(ends) # 2 THEN [raised |-> TRUE, segment |-> NoSegment]
        ELSE [raised |-> FALSE,
              segment |-> [start |-> ends[1], end |-> ends[2],
                           text |-> Strip(parts[2], Whitespace)]]

\* Lines 540-552: current_segment, the segments of the lines in order.
RECURSIVE ElementSegments(_)
ElementSegments(lines) ==
    IF lines = <<>> THEN <<>>
    ELSE LET line == Head(lines)
             p == ElementParseLine(line)
         IN  (IF Strip(line, Whitespace) # <<>> /\ ~p.raised
              THEN <<p.segment>> ELSE <<>>) \o ElementSegments(Tail(lines))

\* [seg['text'] for seg in current_segment if <test>], for the tests of
\* line 556 (first), line 562 (second) and line 566 (third).
RECURSIVE ElementTexts(_, _)
ElementTexts(current_segment, test) ==
    IF current_segment = <<>> THEN <<>>
    ELSE LET seg == Head(current_segment)
             starts == seg.start = <<"0", "0", ":", "0", "0">>
             closes == EndsWith(seg.end, <<"6", "0">>)
             chosen == CASE test = 1 -> starts
                         [] test = 2 -> ~(starts \/ closes)
                         [] test = 3 -> closes
         IN  (IF chosen THEN <<seg.text>> ELSE <<>>)
                 \o ElementTexts(Tail(current_segment), test)

\* next(generator, ""): the first text, or the empty string.
FirstOrEmpty(texts) == IF texts = <<>> THEN <<>> ELSE Head(texts)

\* _extract_script_elements(transcription), lines 537-574.
extract_script_elements(t) ==
    LET current_segment == ElementSegments(Split(t, NewLine))
    IN  [done |-> TRUE,
         hook |-> FirstOrEmpty(ElementTexts(current_segment, 1)),
         main_content |-> JoinWith(ElementTexts(current_segment, 2), <<" ">>),
         cta |-> FirstOrEmpty(ElementTexts(current_segment, 3))]

SegmentInit ==
    /\ now = 0
    /\ rate_limits = [h \in Handlers |-> [c \in Categories |->
                         [calls |-> 0, reset_time |-> 0]]]
    /\ tasks = [t \in Tasks |-> NoTask]
    /\ todo = <<>>
    /\ ev = NoEvent
    /\ windows = [h \in Handlers |-> [c \in Categories |->
                     {[start |-> 0, n |-> 0, all |-> 0]}]]
    /\ recent = [h \in Handlers |-> [c \in Categories |-> {}]]
    /\ cur = [h \in Handlers |-> [c \in Categories |-> [fresh |-> TRUE, made |-> 0]]]
    /\ heap = <<>>
    /\ lists = <<>>
    /\ result = <<>>
    /\ phase = "none"
    /\ heap0 = <<>>
    /\ first = <<>>
    /\ env = <<>>
    /\ call = NoCall
    /\ transcription \in Transcriptions
    /\ analysis = NoAnalysis
    /\ elements = NoElements
    /\ run = NoRun

\* The pipeline awaits _analyze_transcription(transcription).
AnalyzeTranscription ==
    /\ ~analysis.done
    /\ analysis' = analyze_transcription(transcription)
    /\ UNCHANGED <<env, call, transcription, elements, run>>
    /\ UNCHANGED <<limiterVars, mergeVars>>

\* The pipeline awaits _extract_script_elements(transcription).
ExtractScriptElements ==
    /\ ~elements.done
    /\ elements' = extract_script_elements(transcription)
    /\ UNCHANGED <<env, call, transcription, analysis, run>>
    /\ UNCHANGED <<limiterVars, mergeVars>>

SegmentNext == AnalyzeTranscription \/ ExtractScriptElements

SegmentSpec == SegmentInit /\ [][SegmentNext]_vars

(***************************************************************************)
(* TikTokContentPipeline._validate_script_originality.  A script is the    *)
(* sequence of the voiceovers of its scenes.                               *)
(***************************************************************************)
MaxScenes == 2

UpperCase == <<"A", "B", "C", "D", "E", "F", "G", "H", "I", "J", "K", "L", "M",
               "N", "O", "P", "Q", "R", "S", "T", "U", "V", "W", "X", "Y", "Z">>
LowerCase == <<"a", "b", "c", "d", "e", "f", "g", "h", "i", "j", "k", "l", "m",
               "n", "o", "p", "q", "r", "s", "t", "u", "v", "w", "x", "y", "z">>

\* str.lower()
Lower(s) ==
    [i \in 1 .. Len(s) |->
        IF \E k \in 1 .. Len(UpperCase) : UpperCase[k] = s[i]
        THEN LowerCase[CHOOSE k \in 1 .. Len(UpperCase) : UpperCase[k] = s[i]]
        ELSE s[i]]

\* str.split() with no argument: the runs of characters between whitespace,
\* none of them empty, from left to right.
SplitWords(s) ==
    LET starts == {i \in 1 .. Len(s) :
                       s[i] \notin Whitespace /\ (i = 1 \/ s[i - 1] \in Whitespace)}
        ends == {i \in 1 .. Len(s) :
                     s[i] \notin Whitespace /\ (i = Len(s) \/ s[i + 1] \in Whitespace)}
        Nth(at, k) == CHOOSE i \in at : Cardinality({j \in at : j <= i}) = k
    IN  [k \in 1 .. Cardinality(starts) |-> SubSeq(s, Nth(starts, k), Nth(ends, k))]

\* set(seq)
SetOf(seq) == {seq[i] : i \in 1 .. Len(seq)}

\* Lines 652-655: ' '.join(scene['voiceover'].lower() for scene in scenes)
ScriptText(script) ==
    JoinWith([i \in 1 .. Len(script) |-> Lower(script[i])], <<" ">>)

\* Lines 658-662, one line: line.split(']')[1].strip().lower(), for the
\* lines with a ']' in them.
RECURSIVE TranscriptionTexts(_)
TranscriptionTexts(lines) ==
    IF lines = <<>> THEN <<>>
    ELSE LET line == Head(lines)
         IN  (IF \E i \in 1 .. Len(line) : line[i] = "]"
              THEN <<Lower(Strip(Split(line, "]")[2], Whitespace))>>
              ELSE <<>>) \o TranscriptionTexts(Tail(lines))

\* Lines 658-662: the texts joined by single spaces.
TranscriptionText(t) == JoinWith(TranscriptionTexts(Split(t, NewLine)), <<" ">>)

\* Lines 670-673: similarity = common / total if total > 0 else 1.0, and
\* similarity < 0.5; common / total < 1/2 is 2 * common < total.
BelowThreshold(common, total) ==
    IF total > 0 THEN 2 * common < total ELSE FALSE

\* _validate_script_originality(script, original_transcription).
validate_script_originality(script, t) ==
    LET script_words == SetOf(SplitWords(ScriptText(script)))
        common_words == script_words \cap SetOf(SplitWords(TranscriptionText(t)))
        total_words == Cardinality(script_words)
    IN  BelowThreshold(Cardinality(common_words), total_words)

\* The voiceovers the explored scripts are made of.
Voiceovers == {<<>>, <<"H", "i">>, <<"a">>, <<"H", "i", " ", "x">>, <<"x", " ", " ", "y">>}
Scripts == SeqsUpTo(Voiceovers, MaxScenes)

OriginalityInit ==
    /\ now = 0
    /\ rate_limits = [h \in Handlers |-> [c \in Categories |->
                         [calls |-> 0, reset_time |-> 0]]]
    /\ tasks = [t \in Tasks |-> NoTask]
    /\ todo = <<>>
    /\ ev = NoEvent
    /\ windows = [h \in Handlers |-> [c \in Categories |->
                     {[start |-> 0, n |-> 0, all |-> 0]}]]
    /\ recent = [h \in Handlers |-> [c \in Categories |-> {}]]
    /\ cur = [h \in Handlers |-> [c \in Categories |-> [fresh |-> TRUE, made |-> 0]]]
    /\ heap = <<>>
    /\ lists = <<>>
    /\ result = <<>>
    /\ phase = "none"
    /\ heap0 = <<>>
    /\ first = <<>>
    /\ env = <<>>
    /\ call = NoCall
    /\ transcription = <<>>
    /\ analysis = NoAnalysis
    /\ elements = NoElements
    /\ \E script \in Scripts, t \in Transcriptions :
           run = [NoRun EXCEPT !.script = script, !.transcription = t]

\* A caller awaits _validate_script_originality(script, transcription).
ValidateScriptOriginality ==
    /\ run.pc = "idle"
    /\ run' = [run EXCEPT !.pc = "validated",
                          !.is_original = validate_script_originality(run.script,
                                                                      run.transcription)]
    /\ UNCHANGED <<env, call, transcription, analysis, elements>>
    /\ UNCHANGED <<limiterVars, mergeVars>>

OriginalityNext == ValidateScriptOriginality

OriginalitySpec == OriginalityInit /\ [][OriginalityNext]_vars

(***************************************************************************)
(* TranscriptionService.transcribe and process_trending_video.  The        *)
(* coroutine is SeqTask; it gives up control only inside asyncio.sleep, so *)
(* a call is one step, or two when the rate limiter makes it sleep.        *)
(***************************************************************************)
TranscriptionHandler == "transcription_service"

\* Line 189: the text before {video_id}.
SamplePrefix ==
    <<"[", "0", "0", ":", "0", "0", "-", "0", "0", ":", "0", "5", "]", " ",
      "S", "a", "m", "p", "l", "e", " ", "t", "r", "a", "n", "s", "c", "r",
      "i", "p", "t", "i", "o", "n", " ", "f", "o", "r", " ", "v", "i", "d",
      "e", "o", " ">>

\* Line 590.
HookPrefix ==
    <<"I", "'", "v", "e", " ", "d", "i", "s", "c", "o", "v", "e", "r", "e",
      "d", " ", "a", " ", "u", "n", "i", "q", "u", "e", " ", "w", "a", "y",
      " ", "t", "o", " ">>

\* Line 284: template['hook'] of the TUTORIAL content type (line 207).
TemplateHook ==
    <<"I", "'", "v", "e", " ", "d", "e", "v", "e", "l", "o", "p", "e", "d",
      " ", "a", " ", "u", "n", "i", "q", "u", "e", " ", "a", "p", "p", "r",
      "o", "a", "c", "h", " ", "t", "o", " ", "{", "d", "e", "s", "c", "r",
      "i", "p", "t", "i", "o", "n", "}", ".", " ", "H", "e", "r", "e", "'",
      "s", " ", "m", "y", " ", "o", "r", "i", "g", "i", "n", "a", "l", " ",
      "t", "u", "t", "o", "r", "i", "a", "l", "!">>

\* Line 285: template['main_content'].
TemplateMainContent ==
    <<"B", "a", "s", "e", "d", " ", "o", "n", " ", "m", "y", " ", "e", "x",
      "p", "e", "r", "i", "e", "n", "c", "e", ",", " ", "h", "e", "r", "e",
      "'", "s", " ", "m", "y", " ", "p", "e", "r", "s", "o", "n", "a", "l",
      " ", "s", "t", "e", "p", "-", "b", "y", "-", "s", "t", "e", "p", " ",
      "g", "u", "i", "d", "e", ".", ".", ".">>

\* Line 596.
MainContentPrefix ==
    <<"L", "e", "t", " ", "m", "e", " ", "s", "h", "o", "w", " ", "y", "o",
      "u", " ", "m", "y", " ", "p", "e", "r", "s", "o", "n", "a", "l", " ",
      "a", "p", "p", "r", "o", "a", "c", "h", ":", " ">>

\* Line 597.
NextSeparator ==
    <<" ", "N", "e", "x", "t", ",", " ">>

\* Line 603.
CtaPrefix ==
    <<"I", "f", " ", "y", "o", "u", " ", "f", "o", "u", "n", "d", " ", "t",
      "h", "i", "s", " ", "h", "e", "l", "p", "f", "u", "l", ",", " ">>

\* Line 605.
DefaultCta ==
    <<"D", "o", "n", "'", "t", " ", "f", "o", "r", "g", "e", "t", " ", "t",
      "o", " ", "f", "o", "l", "l", "o", "w", " ", "f", "o", "r", " ", "m",
      "o", "r", "e", " ", "u", "n", "i", "q", "u", "e", " ", "c", "o", "n",
      "t", "e", "n", "t", " ", "l", "i", "k", "e", " ", "t", "h", "i", "s",
      "!">>

\* Line 618.
IntroVoiceover ==
    <<"I", "'", "m", " ", "e", "x", "c", "i", "t", "e", "d", " ", "t", "o",
      " ", "s", "h", "a", "r", "e", " ", "m", "y", " ", "p", "e", "r", "s",
      "o", "n", "a", "l", " ", "e", "x", "p", "e", "r", "i", "e", "n", "c",
      "e", " ", "w", "i", "t", "h", " ", "t", "h", "i", "s">>

\* A video id.
PlainId ==
    <<"v", "1">>

\* A video id with a ']' in it.
BracketId ==
    <<"a", "]", "b">>

\* A video id made of words the generated script uses.
EchoId ==
    <<"i", "'", "m", " ", "e", "x", "c", "i", "t", "e", "d", " ", "s", "h",
      "a", "r", "e", " ", "m", "y", " ", "p", "e", "r", "s", "o", "n", "a",
      "l", " ", "e", "x", "p", "e", "r", "i", "e", "n", "c", "e", " ", "w",
      "i", "t", "h", " ", "t", "h", "i", "s", " ", "b", "a", "s", "e", "d",
      " ", "o", "n", " ", "h", "e", "r", "e", "'", "s", " ", "g", "u", "i",
      "d", "e", ".", ".", ".">>

VideoIds == {PlainId, BracketId, EchoId}

\* What the transcription provider does at lines 186-189.
Providers == {"ok", "raise"}

\* Line 189: f"[00:00-00:05] Sample transcription for video {video_id}"
SampleTranscription(video_id) == SamplePrefix \o video_id

\* _generate_original_script(analysis), lines 586-634: the voiceovers of the
\* four scenes.
generate_original_script(a) ==
    LET original_hook == IF a.hooks # <<>> THEN HookPrefix \o Lower(a.hooks[1])
                         ELSE TemplateHook
        main_content == IF a.key_points # <<>>
                        THEN MainContentPrefix \o JoinWith(a.key_points, NextSeparator)
                        ELSE TemplateMainContent
        cta == IF a.call_to_action # None /\ a.call_to_action[1] # <<>>
               THEN CtaPrefix \o Lower(a.call_to_action[1])
               ELSE DefaultCta
    IN  <<original_hook, IntroVoiceover, main_content, cta>>

\* Mutant: the rate limiter is not awaited.
RateLimitReturnedAtOnce(outcome) == TRUE

\* Line 184: `await self.rate_limiter.handle_rate_limit('transcription')` has
\* returned, the limiter's step having ended in `outcome`.
RateLimitReturned(outcome) == outcome = "granted"

\* Mutant: the script is returned whatever the validator said.
RejectedNever(is_original) == FALSE

\* Lines 461-462: if not is_original: raise ValueError(...)
Rejected(is_original) == ~is_original

\* Mutant: a provider failure is swallowed and an empty transcript returned.
TranscribedWithFallback(r) ==
    [r EXCEPT !.steps = <<"transcribe">>,
              !.transcription = IF r.provider = "raise" THEN <<>>
                                ELSE SampleTranscription(r.video_id)]

\* Lines 186-192: transcribe from its try to its return or raise.
Transcribed(r) ==
    IF r.provider = "raise"
    THEN [r EXCEPT !.steps = <<"transcribe">>, !.error = "Exception"]
    ELSE [r EXCEPT !.steps = <<"transcribe">>,
                   !.transcription = SampleTranscription(r.video_id)]

\* Lines 447-472 once transcribe has returned or raised; an exception
\* leaves the try at once and is raised again at line 472.
Processed(r) ==
    LET t == Transcribed(r)
        a == analyze_transcription(t.transcription)
        e == extract_script_elements(t.transcription)
        script == generate_original_script(a)
        is_original == validate_script_originality(script, t.transcription)
    IN  IF t.error # ""
        THEN [run |-> [t EXCEPT !.pc = "done"], analysis |-> NoAnalysis,
              elements |-> NoElements]
        ELSE [run |-> [t EXCEPT !.pc = "done",
                                !.steps = <<"transcribe", "analyze", "extract",
                                            "generate", "validate">>,
                                !.script = script,
                                !.is_original = is_original,
                                !.error = IF Rejected(is_original) THEN "ValueError"
                                          ELSE "",
                                !.returned = ~Rejected(is_original)],
              analysis |-> a, elements |-> e]

\* The rest of the running call once handle_rate_limit has returned.
Finished(r) ==
    IF r.op = "transcribe"
    THEN LET t == Transcribed(r)
         IN  [run |-> [t EXCEPT !.pc = "done", !.returned = t.error = ""],
              analysis |-> NoAnalysis, elements |-> NoElements]
    ELSE Processed(r)

\* The caller awaits op(video_id): transcription_service.transcribe or
\* process_trending_video, up to its return, its raise or the limiter's sleep.
CallPipeline(op, video_id, provider) ==
    /\ run.pc \in {"idle", "done"}
    /\ EnterRateLimit(SeqTask, TranscriptionHandler, "transcription")
    /\ LET r == [NoRun EXCEPT !.op = op, !.video_id = video_id,
                              !.provider = provider,
                              !.slots = IF ev'.outcome = "granted" THEN 1 ELSE 0]
       IN  IF RateLimitReturned(ev'.outcome)
           THEN \E f \in {Finished(r)} :
                    /\ run' = f.run
                    /\ analysis' = f.analysis
                    /\ elements' = f.elements
           ELSE /\ run' = [r EXCEPT !.pc = "sleeping"]
                /\ analysis' = NoAnalysis
                /\ elements' = NoElements
    /\ UNCHANGED <<todo, env, call, transcription>>
    /\ UNCHANGED mergeVars

\* The limiter's sleep is over and the call runs to its end.
ResumePipeline ==
    /\ run.pc = "sleeping"
    /\ LeaveSleep(SeqTask)
    /\ LET r == [run EXCEPT !.slots = @ + 1]
       IN  \E f \in {Finished(r)} :
               /\ run' = f.run
               /\ analysis' = f.analysis
               /\ elements' = f.elements
    /\ UNCHANGED <<todo, env, call, transcription>>
    /\ UNCHANGED mergeVars

PipelineOps == {"transcribe", "process_trending_video"}

PipelineNext ==
    \/ Tick
    \/ \E op \in PipelineOps, video_id \in VideoIds, provider \in Providers :
           CallPipeline(op, video_id, provider)
    \/ ResumePipeline

PipelineSpec == Init /\ [][PipelineNext]_vars

(***************************************************************************)
(* TikTokSoundAnalyzer.get_trending_sounds (tiktok_api.py).  A video is    *)
(* told by its sound; a sound is an object with a sound_id and the count   *)
(* the provider gave it.                                                   *)
(***************************************************************************)
MaxVideos == 2
MaxSounds == 1

TrendingSounds == {[sound_id |-> "s1", video_count |-> 1],
                   [sound_id |-> "s1", video_count |-> 2],
                   [sound_id |-> "s2", video_count |-> 1]}

\* What api_client.get_trending_videos can return: the sounds of its videos.
TrendingVideos == SeqsUpTo(TrendingSounds, MaxVideos)

\* Mutant: a later video's sound replaces the one kept for its sound_id.
KeepSoundLast(sounds, sound) ==
    IF \E i \in 1 .. Len(sounds) : sounds[i].sound_id = sound.sound_id
    THEN [i \in 1 .. Len(sounds) |->
             IF sounds[i].sound_id = sound.sound_id THEN sound ELSE sounds[i]]
    ELSE Append(sounds, sound)

\* Lines 188-190: `if sound.sound_id not in sounds: sounds[sound.sound_id] =
\* sound`; the dict is the sequence of its values in insertion order.
KeepSound(sounds, sound) ==
    IF \E i \in 1 .. Len(sounds) : sounds[i].sound_id = sound.sound_id
    THEN sounds
    ELSE Append(sounds, sound)

\* Lines 185-190: the loop over the videos.
RECURSIVE SoundsOf(_, _)
SoundsOf(sounds, videos) ==
    IF videos = <<>> THEN sounds
    ELSE SoundsOf(KeepSound(sounds, Head(videos)), Tail(videos))

\* Line 192: list(sounds.values())[:max_results], max_results >= 0.
FirstSounds(sounds, max_results) ==
    SubSeq(sounds, 1, IF max_results < Len(sounds) THEN max_results ELSE Len(sounds))

\* A caller awaits get_trending_sounds(max_results); api_client will answer
\* with `videos`, or raise.
CallSounds(max_results, videos, outcome) ==
    /\ call.pc \in {"idle", "returned"}
    /\ todo = <<>>
    /\ tasks[SeqTask].pc = "idle"
    /\ todo' = SoundsSlots
    /\ call' = [NoCall EXCEPT !.op = "get_trending_sounds", !.pc = "running",
                              !.max_results = <<max_results>>, !.videos = videos]
    /\ env' = <<outcome>>
    /\ ev' = [NoEvent EXCEPT !.op = "get_trending_sounds"]
    /\ UNCHANGED <<now, rate_limits, tasks, windows, recent, cur>>
    /\ UNCHANGED <<transcription, analysis, elements, run>>
    /\ UNCHANGED mergeVars

\* Lines 183-195 once both rate limiters have let the call pass: the try
\* and its except.
SoundsReturned ==
    /\ call.pc = "running"
    /\ todo = <<>>
    /\ tasks[SeqTask].pc = "idle"
    /\ call' = [call EXCEPT !.pc = "returned",
                            !.sounds = IF env[1] = "raise" THEN <<>>
                                       ELSE FirstSounds(SoundsOf(<<>>, call.videos),
                                                        call.max_results[1])]
    /\ ev' = [NoEvent EXCEPT !.op = "return"]
    /\ UNCHANGED <<now, rate_limits, tasks, todo, windows, recent, cur>>
    /\ UNCHANGED <<env, transcription, analysis, elements, run>>
    /\ UNCHANGED mergeVars

SoundsNext ==
    \/ Tick
    \/ \E max_results \in 0 .. MaxSounds, videos \in TrendingVideos,
          outcome \in Providers :
           CallSounds(max_results, videos, outcome)
    \/ AggAcquire
    \/ Resume(SeqTask) /\ UNCHANGED todo
    \/ SoundsReturned

SoundsSpec == Init /\ [][SoundsNext]_vars

(***************************************************************************)
(* ContentPipeline.wait_for_vadoo_completion, in its two copies:           *)
(* automated_content_pipeline.py and src/youtube_shorts_automation.py.     *)
(* `call` holds the running call; time plays no part in it beyond the      *)
(* sleep between two checks.                                               *)
(***************************************************************************)
max_attempts == 30

WaitModules == {"automated_content_pipeline", "youtube_shorts_automation"}

\* What one status check can come to: the request or the reading of its
\* answer raises; the answer has an error status; or it is read and its
\* 'status' is 'completed' (with a video_url), 'failed', or something else.
CheckOutcomes == {"raise", "error_status", "completed", "failed", "processing"}

\* No wait_for_vadoo_completion call has been made.
NoWait == [op |-> "", module |-> "", pc |-> "idle", attempt |-> 0, checks |-> 0,
           last |-> "", success |-> FALSE, video_url |-> "", error |-> "",
           raised |-> FALSE]

VadooInit ==
    /\ now = 0
    /\ rate_limits = [h \in Handlers |-> [c \in Categories |->
                         [calls |-> 0, reset_time |-> 0]]]
    /\ tasks = [t \in Tasks |-> NoTask]
    /\ todo = <<>>
    /\ ev = NoEvent
    /\ windows = [h \in Handlers |-> [c \in Categories |->
                     {[start |-> 0, n |-> 0, all |-> 0]}]]
    /\ recent = [h \in Handlers |-> [c \in Categories |-> {}]]
    /\ cur = [h \in Handlers |-> [c \in Categories |-> [fresh |-> TRUE, made |-> 0]]]
    /\ heap = <<>>
    /\ lists = <<>>
    /\ result = <<>>
    /\ phase = "none"
    /\ heap0 = <<>>
    /\ first = <<>>
    /\ env = <<>>
    /\ call = NoWait
    /\ transcription = <<>>
    /\ analysis = NoAnalysis
    /\ elements = NoElements
    /\ run = NoRun

\* Mutant: the loop runs while attempt <= max_attempts.
LoopContinuesOnceMore(attempt) == attempt <= max_attempts

\* `while attempt < max_attempts`
LoopContinues(attempt) == attempt < max_attempts

\* The three returns of a failure: after 'failed', after the loop, and in
\* the except branch (str(e)).
Failure(c, error) == [c EXCEPT !.pc = "returned", !.success = FALSE, !.error = error]

\* An answer with an error status: the first copy skips it (`if
\* response.status_code == 200`), the second raises at raise_for_status().
ErrorStatusRaises(module) == module = "youtube_shorts_automation"

\* attempt += 1, then await asyncio.sleep(10).
NextAttempt(c) == [c EXCEPT !.attempt = @ + 1, !.pc = "sleeping"]

\* The loop test, on entry and after each sleep; the loop over, the timeout
\* failure is returned.
LoopTest(c) ==
    IF LoopContinues(c.attempt) THEN [c EXCEPT !.pc = "checking"]
    ELSE Failure(c, "Timeout waiting for video generation")

\* A caller awaits wait_for_vadoo_completion(job_id).
CallWait(module) ==
    /\ call.pc = "idle"
    /\ call' = LoopTest([NoWait EXCEPT !.op = "wait_for_vadoo_completion",
                                       !.module = module])
    /\ UNCHANGED <<env, transcription, analysis, elements, run>>
    /\ UNCHANGED <<limiterVars, mergeVars>>

\* One pass of the loop body, from requests.get to a return or to the sleep.
StatusCheck(outcome) ==
    /\ call.pc = "checking"
    /\ LET c == [call EXCEPT !.checks = @ + 1, !.last = outcome]
       IN  call' =
               CASE outcome = "raise" -> Failure(c, "str(e)")
                 [] outcome = "error_status" ->
                        IF ErrorStatusRaises(c.module) THEN Failure(c, "str(e)")
                        ELSE NextAttempt(c)
                 [] outcome = "completed" ->
                        [c EXCEPT !.pc = "returned", !.success = TRUE,
                                  !.video_url = "video_url"]
                 [] outcome = "failed" -> Failure(c, "Video generation failed")
                 [] outcome = "processing" -> NextAttempt(c)
    /\ UNCHANGED <<env, transcription, analysis, elements, run>>
    /\ UNCHANGED <<limiterVars, mergeVars>>

\* The sleep is over.
WaitWakes ==
    /\ call.pc = "sleeping"
    /\ call' = LoopTest(call)
    /\ UNCHANGED <<env, transcription, analysis, elements, run>>
    /\ UNCHANGED <<limiterVars, mergeVars>>

VadooNext ==
    \/ \E module \in WaitModules : CallWait(module)
    \/ \E outcome \in CheckOutcomes : StatusCheck(outcome)
    \/ WaitWakes

\* Every request is answered or raises, and the event loop ends every sleep.
VadooSpec == VadooInit /\ [][VadooNext]_vars /\ WF_vars(VadooNext)

(***************************************************************************)
(* The rate limiter's claims.                                              *)
(***************************************************************************)

\* C1 (as claimed): under any interleaving of concurrent calls on one
\* handler, the calls granted from the moment a window start is tracked and
\* before 60 time-units after it never exceed the category's ceiling.
CeilingPerWindow ==
    \A c \in Categories : \A w \in windows[SharedHandler][c] : w.n <= max_calls[c]

\* C2 (as claimed): for one sequential caller, every interval of 60
\* consecutive time-units holds at most max_calls[category] granted calls.
RollingQuota ==
    \A c \in Categories : \A r \in recent[SharedHandler][c] : r.n <= max_calls[c]

\* C2 (amended): for one sequential caller, every interval of 60 time-units
\* that begins at a tracked window start holds at most max_calls[category]
\* granted calls, and the counter is the number of calls granted in the
\* window in effect.
FixedWindowQuota ==
    \A h \in Handlers, c \in Categories :
        /\ \A w \in windows[h][c] : w.n <= max_calls[c]
        /\ \A w \in windows[h][c] :
               w.start = rate_limits[h][c].reset_time => w.n = rate_limits[h][c].calls

FixedWindowFull ==
    \E c \in Categories :
        /\ tasks[SeqTask].pc = "sleeping"
        /\ tasks[SeqTask].limit_type = c
        /\ \E w \in windows[SharedHandler][c] : w.start > 0 /\ w.n = max_calls[c]

\* C3 (as claimed): the calls granted for a category by all the collectors
\* of one scraper within one tracked window never exceed the category's
\* ceiling.
SharedCeiling ==
    \A h \in Handlers, c \in Categories :
        \A w \in windows[h][c] : w.all <= max_calls[c]

\* C4: every counter stays within 0..max_calls[category]; a call that finds
\* the counter at the ceiling is suspended with the counter left as found,
\* and a granted call leaves it between 1 and the ceiling.
CounterWithinCeiling ==
    /\ \A h \in Handlers, c \in Categories :
           /\ 0 <= rate_limits[h][c].calls
           /\ rate_limits[h][c].calls <= max_calls[c]
    /\ ev.outcome = "suspended" =>
           /\ rate_limits[ev.h][ev.limit_type].calls = max_calls[ev.limit_type]
           /\ tasks[ev.task].pc = "sleeping"
    /\ ev.outcome = "granted" => rate_limits[ev.h][ev.limit_type].calls >= 1

SuspendedAtCeiling ==
    /\ ev.outcome = "suspended"
    /\ \E t \in Tasks \ {ev.task} : tasks[t].pc = "sleeping"

\* C5: in a window that began with the counter at zero, each of the first
\* max_calls[category] calls made returns without suspending and every
\* further call made in it suspends, to wake no earlier than the window's
\* end; a suspended call returns with the counter zeroed and then counting
\* its own slot, and with the window start set to the time of its return.
FreshWindowAdmitsCeiling ==
    /\ (ev.op = "call" /\ ev.limit_type \in Categories
            /\ cur[ev.h][ev.limit_type].fresh) =>
           IF cur[ev.h][ev.limit_type].made <= max_calls[ev.limit_type]
           THEN ev.outcome = "granted" /\ tasks[ev.task].pc = "idle"
           ELSE /\ ev.outcome = "suspended"
                /\ tasks[ev.task].pc = "sleeping"
                /\ tasks[ev.task].wake >=
                       rate_limits[ev.h][ev.limit_type].reset_time + WindowLen
    /\ ev.op = "wake" =>
           /\ rate_limits[ev.h][ev.limit_type] = [calls |-> 1, reset_time |-> now]
           /\ tasks[ev.task].pc = "idle"

CeilingPlusOneSuspended ==
    /\ ev.op = "call"
    /\ ev.outcome = "suspended"
    /\ cur[ev.h][ev.limit_type].fresh
    /\ cur[ev.h][ev.limit_type].made = max_calls[ev.limit_type] + 1
    /\ rate_limits[ev.h][ev.limit_type].reset_time > 0

\* A step that is a handle_rate_limit call for a configured category.
CallStep == ev'.op = "call" /\ ev'.limit_type \in Categories

\* What the caller of that step found elapsed since the tracked window start.
ElapsedAtCall == now - rate_limits[ev'.h][ev'.limit_type].reset_time

\* The step returned without suspending, having restarted the window.
ResetAndCounted ==
    /\ ev'.outcome = "granted"
    /\ tasks'[ev'.task].pc = "idle"
    /\ rate_limits'[ev'.h][ev'.limit_type] = [calls |-> 1, reset_time |-> now]

\* C6 (as claimed): a call made once 60 time-units have elapsed since the
\* tracked window start returns without suspending, with the window start
\* set to the current time and the counter at 1.
ResetOnceWindowElapsed ==
    [][(CallStep /\ ElapsedAtCall >= WindowLen) => ResetAndCounted]_vars

\* C6 (amended): a call made when more than 60 time-units have elapsed since
\* the tracked window start returns without suspending, with the window
\* start set to the current time and the counter at 1.
ResetAfterWindowElapsed ==
    [][(CallStep /\ ElapsedAtCall > WindowLen) => ResetAndCounted]_vars

WindowRestartedByCall ==
    /\ ev.op = "call"
    /\ ev.outcome = "granted"
    /\ rate_limits[ev.h][ev.limit_type] = [calls |-> 1, reset_time |-> now]
    /\ now > WindowLen

\* C7: a call with a limit type outside the configured categories raises
\* without suspending the caller, and leaves every counter and every window
\* start as they were.
UnknownTypeRejected ==
    [][(ev'.op = "call" /\ ev'.limit_type \notin Categories) =>
           /\ ev'.outcome = "ValueError"
           /\ rate_limits' = rate_limits
           /\ tasks' = tasks]_vars

UnknownTypeRaised ==
    /\ ev.outcome = "ValueError"
    /\ rate_limits[ev.h]["api"].calls > 0
    /\ \E t \in Tasks : tasks[t].pc = "sleeping"

(***************************************************************************)
(* The merge's claims.  Occurrences are the references of the source lists *)
(* in source order; what an occurrence held is read in heap0, the objects  *)
(* before the call.                                                        *)
(***************************************************************************)
RECURSIVE Flat(_)
Flat(ls) == IF ls = <<>> THEN <<>> ELSE Head(ls) \o Flat(Tail(ls))

Occurrences == Flat(lists)

\* The positions in Occurrences of the occurrences of name nm, ascending.
RECURSIVE OccurrencesOf(_, _)
OccurrencesOf(nm, k) ==
    IF k > Len(Occurrences) THEN <<>>
    ELSE (IF heap0[Occurrences[k]].name = nm THEN <<k>> ELSE <<>>)
             \o OccurrencesOf(nm, k + 1)

RECURSIVE SumOver(_, _)
SumOver(ps, field) ==
    IF ps = <<>> THEN 0
    ELSE heap0[Occurrences[Head(ps)]][field] + SumOver(Tail(ps), field)

InputNames == {heap0[Occurrences[k]].name : k \in 1 .. Len(Occurrences)}

\* One record per distinct input name: none lost, none duplicated.
OnePerName(refs) ==
    /\ {heap[refs[i]].name : i \in 1 .. Len(refs)} = InputNames
    /\ Len(refs) = Cardinality(InputNames)

\* C8 (as claimed): the merge returns exactly one record per distinct input
\* name, whose video_count and view_count are the sums of the counts of all
\* the input occurrences of that name.
MergeSumsOccurrences ==
    phase = "merged" =>
        /\ OnePerName(result)
        /\ \A i \in 1 .. Len(result) :
               LET ps == OccurrencesOf(heap[result[i]].name, 1)
               IN  /\ heap[result[i]].video_count = SumOver(ps, "video_count")
                   /\ heap[result[i]].view_count = SumOver(ps, "view_count")

\* C9 (as claimed): merging the merged result again, and merging the same
\* source lists a second time, both give every name the counts the first
\* merge gave it.
RepeatedMergeKeepsCounts ==
    phase \in {"again", "remerged"} =>
        /\ Len(result) = Len(first)
        /\ \A i \in 1 .. Len(result) : \E j \in 1 .. Len(first) :
               /\ first[j].name = heap[result[i]].name
               /\ first[j].video_count = heap[result[i]].video_count
               /\ first[j].view_count = heap[result[i]].view_count

\* The first description among the occurrences ps that is not None.
RECURSIVE FirstNonNull(_)
FirstNonNull(ps) ==
    IF ps = <<>> THEN None
    ELSE IF heap0[Occurrences[Head(ps)]].description # None
         THEN heap0[Occurrences[Head(ps)]].description
         ELSE FirstNonNull(Tail(ps))

\* The first description among the occurrences ps that is neither None nor ''.
RECURSIVE FirstNonEmpty(_, _)
FirstNonEmpty(ps, otherwise) ==
    IF ps = <<>> THEN otherwise
    ELSE IF Truthy(heap0[Occurrences[Head(ps)]].description)
         THEN heap0[Occurrences[Head(ps)]].description
         ELSE FirstNonEmpty(Tail(ps), otherwise)

\* C10 (as claimed): the merged description is that of the first occurrence
\* with a non-null description, and null only when every occurrence's is null.
FirstNonNullDescription ==
    phase = "merged" =>
        \A i \in 1 .. Len(result) :
            heap[result[i]].description =
                FirstNonNull(OccurrencesOf(heap[result[i]].name, 1))

\* C10 (amended): the merged description is that of the first occurrence
\* whose description is neither null nor empty; when no occurrence has one,
\* it is the first occurrence's own description (null or empty).
FirstNonEmptyDescription ==
    phase = "merged" =>
        \A i \in 1 .. Len(result) :
            LET ps == OccurrencesOf(heap[result[i]].name, 1)
            IN  heap[result[i]].description =
                    FirstNonEmpty(ps, heap0[Occurrences[Head(ps)]].description)

\* A name that occurs three times, first with no description and then with
\* one: the merged record has the later occurrence's description.
DescriptionBackfilled ==
    /\ phase = "merged"
    /\ \E i \in 1 .. Len(result) :
           LET ps == OccurrencesOf(heap[result[i]].name, 1)
           IN  /\ Len(ps) >= 3
               /\ heap0[Occurrences[ps[1]]].description = None
               /\ Truthy(heap0[Occurrences[ps[2]]].description)
               /\ heap[result[i]].description = heap0[Occurrences[ps[2]]].description

\* The position in Occurrences of the first occurrence of name nm.
FirstSeen(nm) == Head(OccurrencesOf(nm, 1))

\* C11: the returned sequence is in descending order of the merged
\* view_count, and records with equal view_count stand in the order in which
\* their names were first seen across the source lists.
RankedByViews ==
    phase \in {"merged", "again", "remerged"} =>
        \A i, j \in 1 .. Len(result) :
            i < j =>
                /\ heap[result[i]].view_count >= heap[result[j]].view_count
                /\ heap[result[i]].view_count = heap[result[j]].view_count
                       => FirstSeen(heap[result[i]].name) < FirstSeen(heap[result[j]].name)

\* Two names with equal merged view_count are returned, the one first seen
\* ahead of the other.
TiedViewsInFirstSeenOrder ==
    /\ phase = "merged"
    /\ Len(result) = 2
    /\ heap[result[1]].view_count = heap[result[2]].view_count
    /\ FirstSeen(heap[result[1]].name) < FirstSeen(heap[result[2]].name)

\* The name, video_count and view_count of the records of a returned list.
Totals(refs, hp) ==
    {<<hp[refs[i]].name, hp[refs[i]].video_count, hp[refs[i]].view_count>> :
         i \in 1 .. Len(refs)}

\* C16 (as claimed): the names of the merged result and each name's
\* video_count and view_count are the same for every order in which the
\* same source lists are supplied.
SourceOrderIrrelevant ==
    phase = "merged" =>
        \A p \in Permutations(Sources) :
            LET r == merge_hashtag_data([s \in Sources |-> lists[p[s]]], heap0)
            IN  Totals(r.result, r.heap) = Totals(result, heap)

(***************************************************************************)
(* The claims about get_trending_hashtags and analyze_trends.              *)
(***************************************************************************)

\* get_trending_hashtags has returned its list (to analyze_trends or to the
\* caller).
HashtagsReturned ==
    \/ call.pc \in {"returned", "sounds", "videos"}
    \/ call.pc = "raised" /\ call.error = "ValueError"

\* C12 (as claimed): a call of get_trending_hashtags that asks for
\* max_results returns normally, with no more than max_results entries: the
\* first max_results entries of the ranked merged list.
TruncatedToMaxResults ==
    \A k \in 0 .. MaxTags :
        (call.pc # "idle" /\ call.max_results = <<k>>) =>
            /\ call.error # "TypeError"
            /\ call.pc = "returned" =>
                   /\ Len(result) <= k
                   /\ result = SubSeq(merge_hashtag_data(call.arrived, heap0).result, 1, k)

\* One collector raises and the other two return data.
OneCollectorFails ==
    \E s \in Sources :
        /\ env[s] = "raise"
        /\ \A t \in Sources \ {s} : env[t] = "ok" /\ lists[t] # <<>>

\* C13 (as claimed): when one collector raises while the others return
\* data, get_trending_hashtags does not raise, and what it returns is not
\* empty and holds exactly the entries of the sources that succeeded.
FailedCollectorCountsAsEmpty ==
    (call.max_results = None /\ OneCollectorFails) =>
        /\ call.error # "collector"
        /\ HashtagsReturned =>
               /\ result # <<>>
               /\ {heap[result[i]].name : i \in 1 .. Len(result)} =
                      UNION {{heap0[lists[s][i]].name : i \in 1 .. Len(lists[s])} :
                                 s \in {t \in Sources : env[t] = "ok"}}

\* C14 (as claimed): when every collector raises, get_trending_hashtags
\* raises nothing and returns the empty sequence.
AllCollectorsFailedIsEmpty ==
    (call.max_results = None /\ \A s \in Sources : env[s] = "raise") =>
        /\ call.error # "collector"
        /\ HashtagsReturned => result = <<>>

\* C15 (as claimed): when the hashtag collectors, get_trending_sounds and
\* get_trending_videos all return empty lists, analyze_trends does not raise.
EmptyTrendsAreNormal ==
    (/\ call.op = "analyze_trends"
     /\ \A s \in Sources : env[s] = "ok" /\ lists[s] = <<>>
     /\ call.sounds = <<>>
     /\ call.videos = <<>>)
        => call.pc # "raised"

\* C17 (as claimed): get_trending_hashtags eventually returns also when a
\* collector call never completes (no collector raising).
PendingCollectorCutOff ==
    (/\ call.pc # "idle"
     /\ call.max_results = None
     /\ \A s \in Sources : env[s] \in {"ok", "hang"})
        ~> HashtagsReturned

(***************************************************************************)
(* The claims about _analyze_transcription.  What a line is, is read off   *)
(* its characters by position.                                             *)
(***************************************************************************)
InputLines == Split(transcription, NewLine)

NonBlank(line) == \E i \in 1 .. Len(line) : line[i] \notin Whitespace

\* The position of the first ']' of a line that has one.
FirstClose(line) ==
    CHOOSE k \in 1 .. Len(line) :
        line[k] = "]" /\ \A i \in 1 .. (k - 1) : line[i] # "]"

\* The positions of the hyphens ahead of the first ']'.
HyphensAhead(line) == {i \in 1 .. (FirstClose(line) - 1) : line[i] = "-"}

\* A line with a closing bracket and, ahead of the first one, a timestamp
\* of a start and an end with one hyphen between them.
WellFormed(line) ==
    /\ \E k \in 1 .. Len(line) : line[k] = "]"
    /\ Cardinality(HyphensAhead(line)) = 1

\* C18 (as claimed): segment_count is the number of well-formed non-blank
\* lines; the other lines are skipped.
SegmentCountIsWellFormedLines ==
    analysis.done =>
        analysis.segment_count =
            Cardinality({i \in 1 .. Len(InputLines) :
                             NonBlank(InputLines[i]) /\ WellFormed(InputLines[i])})

\* A line of the form `[start-end] text`.
Marked(line) ==
    /\ WellFormed(line)
    /\ line[1] = "["
    /\ \A i \in 2 .. (FirstClose(line) - 1) : line[i] # "["

\* The segment of a line `[start-end] text`: the text is everything after
\* the first ']', trimmed.
SegmentOf(line) ==
    LET k == FirstClose(line)
        h == CHOOSE i \in HyphensAhead(line) : TRUE
    IN  [start |-> SubSeq(line, 2, h - 1),
         end |-> SubSeq(line, h + 1, k - 1),
         text |-> Strip(SubSeq(line, k + 1, Len(line)), Whitespace)]

\* C19 (as claimed): every line `[start-end] text` yields the segment with
\* that start and end whose text is everything after the first ']',
\* trimmed, also when the text has further ']'.
SplitAtFirstBracket ==
    analysis.done =>
        \A i \in 1 .. Len(InputLines) :
            Marked(InputLines[i]) =>
                \E j \in 1 .. Len(analysis.segments) :
                    analysis.segments[j] = SegmentOf(InputLines[i])

Range(f) == {f[i] : i \in DOMAIN f}

\* C20 (as claimed): every segment is tagged: one that starts at "00:00" is
\* among the hooks, one whose end ends with "60" is reported as the
\* call to action, and one that is neither is among the key points.
EverySegmentTagged ==
    analysis.done =>
        \A j \in 1 .. Len(analysis.segments) :
            LET seg == analysis.segments[j]
            IN  /\ IsHook(seg) => seg.text \in Range(analysis.hooks)
                /\ IsCallToAction(seg) => analysis.call_to_action = <<seg.text>>
                /\ IsKeyPoint(seg) => seg.text \in Range(analysis.key_points)

(***************************************************************************)
(* Further claims about the merge and the rate limiter.                    *)
(***************************************************************************)

\* C28 (as claimed): after the call every record of every source list has
\* the video_count, view_count and description it had before the call.
MergeLeavesInputsUnchanged ==
    phase = "merged" =>
        \A k \in 1 .. Len(Occurrences) : heap[Occurrences[k]] = heap0[Occurrences[k]]

\* The wait computed by the call that has just suspended its caller (the
\* clock and the window start are as the call left them).
SuspendedWaitTime == WaitTime(now, rate_limits[ev.h][ev.limit_type].reset_time)

\* C29: whenever handle_rate_limit suspends a caller, the wait time it
\* computes is between 0 and one window length, both included.
WaitTimeWithinWindow ==
    (ev.op = "call" /\ ev.outcome = "suspended") =>
        SuspendedWaitTime \in 0 .. WindowLen

\* A caller is suspended exactly one window length after the window began,
\* while the window is still in effect: its wait is 0.
SuspendedForZero ==
    /\ ev.op = "call" /\ ev.outcome = "suspended"
    /\ now - rate_limits[ev.h][ev.limit_type].reset_time = WindowLen
    /\ SuspendedWaitTime = 0

(***************************************************************************)
(* The claims about the two transcript parsers.                            *)
(***************************************************************************)

\* C30: the two methods parse and classify one transcript alike: the hook
\* is the first of the analysis' hooks (or ""), main_content is the
\* analysis' key_points joined by single spaces, and cta is the analysis'
\* call_to_action (or "" when it is None).
ElementsAgreeWithAnalysis ==
    (analysis.done /\ elements.done) =>
        /\ elements.hook = (IF analysis.hooks = <<>> THEN <<>> ELSE analysis.hooks[1])
        /\ elements.main_content = JoinWith(analysis.key_points, <<" ">>)
        /\ elements.cta = (IF analysis.call_to_action = None THEN <<>>
                           ELSE analysis.call_to_action[1])

\* Both have run on a transcript of two lines that are two segments: there
\* is a hook, and a call to action with another text.
BothParsedHookAndCallToAction ==
    /\ analysis.done /\ elements.done
    /\ analysis.segment_count = 2
    /\ Len(InputLines) = 2
    /\ elements.hook # <<>>
    /\ elements.cta # <<>>
    /\ elements.hook # elements.cta

(***************************************************************************)
(* The claims about the originality check.  The words of a string are read *)
(* off by position: the runs of non-whitespace characters that whitespace  *)
(* or the string's ends enclose.                                           *)
(***************************************************************************)
WordsOf(s) ==
    {SubSeq(s, i, j) : <<i, j>> \in
        {p \in (1 .. Len(s)) \X (1 .. Len(s)) :
            /\ p[1] <= p[2]
            /\ \A k \in p[1] .. p[2] : s[k] \notin Whitespace
            /\ p[1] = 1 \/ s[p[1] - 1] \in Whitespace
            /\ p[2] = Len(s) \/ s[p[2] + 1] \in Whitespace}}

\* S: the distinct lowercase words of all the voiceovers.
ScriptWords == UNION {WordsOf(Lower(run.script[i])) : i \in 1 .. Len(run.script)}

\* The lines of the validated transcript.
ValidatedLines == Split(run.transcription, NewLine)

\* T: the distinct lowercase words of the lines' texts, a line's text being
\* what follows its bracketed timestamp (its first ']').
TranscriptWords ==
    UNION {WordsOf(Lower(SubSeq(ValidatedLines[i], FirstClose(ValidatedLines[i]) + 1,
                                Len(ValidatedLines[i])))) :
               i \in {k \in 1 .. Len(ValidatedLines) :
                          \E c \in 1 .. Len(ValidatedLines[k]) : ValidatedLines[k][c] = "]"}}

\* C21 (as claimed): the check returns true iff S is not empty and
\* 2 * |S \cap T| < |S|.
OriginalIffBelowHalf ==
    run.pc = "validated" =>
        (run.is_original <=>
            /\ ScriptWords # {}
            /\ 2 * Cardinality(ScriptWords \cap TranscriptWords) < Cardinality(ScriptWords))

(***************************************************************************)
(* The claims about transcribe and process_trending_video.                 *)
(***************************************************************************)
ProcessDone == run.op = "process_trending_video" /\ run.pc = "done"

AllSteps == <<"transcribe", "analyze", "extract", "generate", "validate">>

\* C22 (as claimed): a script the originality check rejects does not make
\* process_trending_video raise.
RejectionNotRaised ==
    (ProcessDone /\ run.steps = AllSteps /\ ~run.is_original) => run.error = ""

\* C23: when transcription fails, process_trending_video raises, returns
\* nothing, and none of the later steps has run.
TranscriptionFailurePropagates ==
    (ProcessDone /\ run.provider = "raise") =>
        /\ run.error = "Exception"
        /\ ~run.returned
        /\ run.steps = <<"transcribe">>
        /\ ~analysis.done /\ ~elements.done
        /\ run.script = <<>>

\* The transcription failed in a call that had to sleep for its slot.
TranscriptionFailedAfterSleep ==
    /\ ProcessDone /\ run.provider = "raise" /\ run.error = "Exception"
    /\ ev.op = "wake"

\* C24: a call of transcribe has taken no slot and produced nothing while
\* the limiter makes it wait, and has taken exactly one slot, of the
\* 'transcription' category, once it is over.
ExactlyOneTranscriptionSlot ==
    /\ run.pc = "sleeping" =>
           /\ run.slots = 0
           /\ run.steps = <<>> /\ run.transcription = <<>> /\ ~run.returned
           /\ tasks[SeqTask].pc = "sleeping"
    /\ run.pc = "done" =>
           /\ run.slots = 1
           /\ tasks[SeqTask].pc = "idle"
           /\ ev.op \in {"call", "wake"} =>
                  /\ ev.outcome = "granted"
                  /\ ev.h = TranscriptionHandler
                  /\ ev.limit_type = "transcription"

\* transcribe returned its transcript after sleeping for its slot.
TranscribedAfterSleep ==
    /\ run.op = "transcribe" /\ run.pc = "done" /\ run.returned
    /\ run.transcription = SampleTranscription(run.video_id)
    /\ run.slots = 1 /\ ev.op = "wake"

\* C26: the steps run in the order transcribe, analyse, extract, generate,
\* validate, and a result is returned only when all five have run and the
\* validator accepted this run's script against this run's transcript.
ResultOnlyIfValidated ==
    run.op = "process_trending_video" =>
        /\ \E k \in 0 .. Len(AllSteps) : run.steps = SubSeq(AllSteps, 1, k)
        /\ run.returned <=>
               /\ run.pc = "done"
               /\ run.steps = AllSteps
               /\ run.is_original
        /\ run.returned =>
               /\ run.transcription = SampleTranscription(run.video_id)
               /\ analysis = analyze_transcription(run.transcription)
               /\ run.script = generate_original_script(analysis)
               /\ validate_script_originality(run.script, run.transcription)

\* process_trending_video returned a script.
ScriptReturned ==
    /\ ProcessDone /\ run.returned /\ run.steps = AllSteps
    /\ run.video_id = PlainId

(***************************************************************************)
(* The claim about get_trending_sounds.                                    *)
(***************************************************************************)
SoundsDone == call.op = "get_trending_sounds" /\ call.pc = "returned"

\* The position in the videos of the first one with the sound_id.
FirstWith(sound_id) ==
    CHOOSE k \in 1 .. Len(call.videos) :
        /\ call.videos[k].sound_id = sound_id
        /\ \A m \in 1 .. (k - 1) : call.videos[m].sound_id # sound_id

WaitReturned == call.op = "wait_for_vadoo_completion" /\ call.pc = "returned"

\* What holds of every state of a call: the checks are counted, nothing is
\* raised, and what is returned is what the last check reported.
WaitOutcome ==
    call.op = "wait_for_vadoo_completion" =>
        /\ call.checks <= max_attempts
        /\ ~call.raised
        /\ call.last \in {"completed", "failed"} => WaitReturned
        /\ WaitReturned =>
               /\ call.success <=> call.last = "completed"
               /\ call.success => call.video_url = "video_url"
               /\ call.last = "failed" => call.error = "Video generation failed"
               /\ call.last \notin {"completed", "failed", "raise", "error_status"} =>
                      /\ call.checks = max_attempts
                      /\ call.error = "Timeout waiting for video generation"

\* C27: wait_for_vadoo_completion makes at most 30 checks, never raises,
\* returns success with the URL at the check that reports 'completed',
\* failure at the check that reports 'failed', the timeout failure after 30
\* checks that report neither, and in every case returns.
WaitAlwaysReturns ==
    /\ []WaitOutcome
    /\ (call.op = "wait_for_vadoo_completion") ~> WaitReturned

\* Thirty checks reported neither status and the timeout was returned.
TimedOutAfterThirtyChecks ==
    /\ WaitReturned
    /\ call.checks = 30 /\ call.attempt = 30 /\ call.last = "processing"
    /\ ~call.success /\ call.error = "Timeout waiting for video generation"

====
